---- MODULE Spec2Model ----
(***************************************************************************)
(* TradingView -> MetaTrader 5 bridge: the /trade webhook (app/server.py)  *)
(* and the order handler MT5Handler (app/mt5_handler.py), run by the       *)
(* threaded Flask server (main.py).  Volumes are in thousandths of a lot.  *)
(***************************************************************************)
EXTENDS Integers, Sequences, FiniteSets, TLC

\* ---------------------------------------------------------------- bounds
MaxPos == 2
MaxSessionCalls == 2
MaxFaults == 3
MaxThreadFaults == 0
MaxEnvTrades == 1

Workers == {"w1", "w2"}
Symbols == {"EURUSD"}
OtherSymbols == {"GBPUSD"}
UnlistedSymbols == {"XAUUSD"}
Suffixes == {"", ".m"}
PosVolumes == {500, 1000}

\* ------------------------------------------------------- program constants
BUY == "ORDER_TYPE_BUY"
SELL == "ORDER_TYPE_SELL"
max_lots == 100000
min_lots == 10
DEFAULT_VOLUME == 10

Absent == "<absent>"
NonStr == "<not a str>"

\* ------------------------------------------------------------- variables
VARIABLES
    connected,      \* MT5Handler.connected
    symbol_suffix,  \* MT5Handler.symbol_suffix
    sessionCalls,   \* number of connect()/disconnect() calls made so far
    lastCall,       \* the most recent of those calls and what it returned
    book,           \* the venue's open positions, in the order it lists them
    lastTicket,     \* the last ticket the venue handed out
    pc,             \* per worker: where its request stands
    req,            \* per worker: the arguments of the call it handles
    symbol,         \* per worker: the local variable `symbol`
    snap,           \* per worker: the position list a close helper iterates
    idx,            \* per worker: index in snap of the next position
    remaining,      \* per worker: remaining_volume of close_position_by_volume
    closed,         \* per worker: closed_positions of the running close helper
    legs,           \* per worker: the orders it has attempted, in order
    named,          \* per worker: instrument names given to venue calls
    ret,            \* per worker: what place_order returned
    status,         \* per worker: HTTP status of the /trade response (0: none)
    message,        \* per worker: the reason a 400 response gives
    faultsLeft,     \* venue failures the environment may still inject
    envTrades,      \* trades made on the account from outside the bridge
    seen,           \* per worker: the venue's positions of the request's
                    \* instrument when place_order read the positions
    tick,           \* per worker: the local variable `tick` of place_order,
                    \* as the number of orders the request had attempted
                    \* when the quote was read (-1: None)
    given,          \* volume normalisation alone: the payload it is given
    norm,           \* <<is_valid, validated_volume>> for the payload given
    again           \* validate_volume applied to the volume it accepted

vars == <<connected, symbol_suffix, sessionCalls, lastCall, book, lastTicket, pc, req,
          symbol, snap, idx, remaining, closed, legs, named, ret, status,
          message, faultsLeft, envTrades, seen, tick, given, norm, again>>

venueVars == <<book, lastTicket, faultsLeft, envTrades>>
sessionVars == <<connected, symbol_suffix, sessionCalls, lastCall>>
localVars == <<symbol, snap, idx, remaining, closed, message, tick>>
volumeVars == <<given, norm, again>>

\* ------------------------------------------------------------ str helpers
\* str.strip().upper() on the strings the payloads carry
StripUpper(s) ==
    CASE s = "eurusd " -> "EURUSD"
      [] s = "EURUSD" -> "EURUSD"
      [] s = " " -> ""
      [] s = "buy" -> "BUY"
      [] s = "Sell" -> "SELL"
      [] s = "long" -> "LONG"
      [] s = "close" -> "CLOSE"
      [] OTHER -> s

\* str.lower() on the action strings place_order receives
Lower(s) ==
    CASE s = "BUY" -> "buy"
      [] s = "SELL" -> "sell"
      [] s = "CLOSE" -> "close"
      [] s = "LONG" -> "long"
      [] s = "SHORT" -> "short"
      [] s = "HOLD" -> "hold"
      [] OTHER -> s

Min(a, b) == IF a <= b THEN a ELSE b

\* ---------------------------------------------------------- MT5Handler
get_symbol_with_suffix(s) == s \o symbol_suffix

\* The instruments the venue knows: the broker's names carry the suffix.
VenueInstruments == {s \o symbol_suffix : s \in Symbols \cup OtherSymbols}

\* the venue lists every position, whatever the symbol asked for
positions_get_any(s) == book

\* mt5.positions_get(symbol=s)
positions_get(s) == SelectSeq(book, LAMBDA p : p.symbol = s)

\* the positions are read without looking at self.connected
get_positions_unchecked(s, raised) ==
    IF raised THEN <<>>
    ELSE positions_get(get_symbol_with_suffix(s))

\* get_positions(symbol); raised: mt5.positions_get raised
get_positions(s, raised) ==
    IF ~connected THEN <<>>
    ELSE IF raised THEN <<>>
    ELSE positions_get(get_symbol_with_suffix(s))

OfType(ps, t) == SelectSeq(ps, LAMBDA p : p.type = t)

Opposite(t) == IF t = BUY THEN SELL ELSE BUY

\* the price sides swapped: a long closed at the ask, a short at the bid
ClosePriceSwapped(t) == IF t = BUY THEN "ask" ELSE "bid"

\* the price side a close order of a position of type t is sent with
ClosePrice(t) == IF t = BUY THEN "bid" ELSE "ask"

\* a close volume that ignores the volume of the position
close_volume_unclamped(p, rem) == rem

\* close_position_by_volume, line 114
close_volume(p, rem) == Min(p.volume, rem)

\* the remaining volume goes down by every order sent
remaining_after_any(rem, cv, o) == rem - cv

\* close_position_by_volume, lines 132-134: remaining_volume after a leg
remaining_after(rem, cv, o) == IF o = "done" THEN rem - cv ELSE rem

\* the index of the first position of type t at or after i (Len + 1: none)
RECURSIVE NextMatch(_, _, _)
NextMatch(ps, i, t) ==
    IF i > Len(ps) THEN Len(ps) + 1
    ELSE IF ps[i].type = t THEN i
    ELSE NextMatch(ps, i + 1, t)

\* ---------------------------------------------------------------- venue
HasPosition(ticket, s, vol) ==
    \E i \in 1..Len(book) :
        book[i].ticket = ticket /\ book[i].symbol = s /\ book[i].volume >= vol

RECURSIVE Reduce(_, _, _)
Reduce(b, ticket, vol) ==
    IF b = <<>> THEN <<>>
    ELSE IF Head(b).ticket = ticket
         THEN IF Head(b).volume <= vol THEN Tail(b)
              ELSE <<[Head(b) EXCEPT !.volume = @ - vol]>> \o Tail(b)
         ELSE <<Head(b)>> \o Reduce(Tail(b), ticket, vol)

\* the outcomes of one close leg: the quote raises, order_send raises,
\* the venue rejects, the venue executes (only a position it still holds)
CloseOutcomes(ticket, s, vol) ==
    (IF HasPosition(ticket, s, vol) THEN {"done"} ELSE {"rejected"})
        \cup (IF faultsLeft > 0 THEN {"tickerr", "senderr", "rejected"} ELSE {})

\* an outcome the venue produces on its own account, not forced by the book
IsFault(o, held) == o \in {"tickerr", "senderr"} \/ (o = "rejected" /\ held)

\* the environment's choice of whether a venue call fails
MayFail == IF faultsLeft > 0 THEN BOOLEAN ELSE {FALSE}

Spend(failed) == faultsLeft' = IF failed THEN faultsLeft - 1 ELSE faultsLeft

Submitted(l) == l.outcome # "tickerr"

\* the venue no longer holds position p as the snapshot shows it
Stale(p) == \A i \in 1..Len(book) : book[i] # p

\* the order request of lines 73-85 and 117-129, with what became of it;
\* quoted: the orders the request had attempted when the price was read
CloseLeg(p, vol, o, quoted) ==
    [kind |-> "close", ticket |-> p.ticket, volume |-> vol,
     type |-> Opposite(p.type), price |-> ClosePrice(p.type), outcome |-> o,
     stale |-> Stale(p), quoted |-> quoted, of |-> p.symbol, sl |-> 0, tp |-> 0]

\* the order request of lines 198-209, with what became of it
\* sl, tp: request["sl"], request["tp"] (0: the request has no such key)
OpenLeg(t, vol, price, o, quoted, sl, tp) ==
    [kind |-> "open", ticket |-> 0, volume |-> vol,
     type |-> t, price |-> price, outcome |-> o, stale |-> FALSE,
     quoted |-> quoted, of |-> "", sl |-> sl, tp |-> tp]

\* --------------------------------------------------------- return values
\* keys: the keys of the dict returned (none for None)
None ==
    [kind |-> "None", success |-> FALSE, closed |-> <<>>, ticket |-> 0, keys |-> {}]
CloseResult(c) ==
    [kind |-> "close", success |-> FALSE, closed |-> c, ticket |-> 0,
     keys |-> {"action", "closed_positions", "volume"}]
OrderResult(ok, t) ==
    [kind |-> "order", success |-> ok, closed |-> <<>>, ticket |-> t,
     keys |-> IF ok THEN {"action", "symbol", "volume", "price", "ticket", "success"}
              ELSE {"action", "symbol", "volume", "success", "error"}]

\* webhook, lines 338-352: result['success'] of None or of the close dict raises
HttpStatus(r) == IF r.kind = "order" /\ r.success THEN 200 ELSE 500

\* stop_loss, take_profit: the arguments of place_order (0: None);
\* sl_given, tp_given: what the incoming request carried
NoReq ==
    [entry |-> "none", symbol |-> "", action |-> "", volume |-> 0,
     order_type |-> "", close_existing |-> TRUE,
     stop_loss |-> 0, take_profit |-> 0, sl_given |-> 0, tp_given |-> 0]

\* place_order returns r to its caller
Return(w, r) ==
    /\ ret' = [ret EXCEPT ![w] = r]
    /\ pc' = [pc EXCEPT ![w] = "done"]
    /\ status' = [status EXCEPT ![w] =
                     IF req[w].entry = "webhook" THEN HttpStatus(r) ELSE 0]


\* the close branch falls through to the open order instead of returning
ReturnCloseFallThrough(w, c) ==
    /\ pc' = [pc EXCEPT ![w] = "open"]
    /\ UNCHANGED <<ret, status>>

\* place_order, line 191: the close branch returns the closed tickets
ReturnClose(w, c) == Return(w, CloseResult(c))

\* the open order goes out first, the opposite positions are closed after it
AfterOpenCloseAll(w, r) ==
    IF \A i \in 1..Len(legs[w]) : legs[w][i].kind # "open"
    THEN /\ pc' = [pc EXCEPT ![w] = "close_all"]
         /\ UNCHANGED <<ret, status>>
    ELSE Return(w, r)

\* place_order, lines 220-242: the result of the open order is returned
AfterOpen(w, r) == Return(w, r)

\* the loop of close_all_positions_by_type ends at the first rejection
NextLegBreakOnReject(w, o) ==
    IF o = "rejected" THEN Len(snap[w]) + 1
    ELSE NextMatch(snap[w], idx[w] + 1, IF Lower(req[w].action) = "buy" THEN SELL ELSE BUY)

\* a close order that raised is sent once more
NextLegRetry(w, o) ==
    IF o = "senderr"
       /\ \A i \in 1..Len(legs[w]) : legs[w][i].ticket # snap[w][idx[w]].ticket
    THEN idx[w]
    ELSE NextMatch(snap[w], idx[w] + 1, IF Lower(req[w].action) = "buy" THEN SELL ELSE BUY)

\* close_all_positions_by_type, lines 69-70 and 88-95: whatever the outcome
\* o of a leg, the loop goes on to the next position of the type
NextLeg(w, o) ==
    NextMatch(snap[w], idx[w] + 1, IF Lower(req[w].action) = "buy" THEN SELL ELSE BUY)

\* ------------------------------------------------------ webhook payloads
VNone == [t |-> "none", v |-> 0, s |-> ""]
Num(n) == [t |-> "num", v |-> n, s |-> ""]
Str(x) == [t |-> "str", v |-> 0, s |-> x]
Flag(b) == [t |-> "bool", v |-> IF b THEN 1 ELSE 0, s |-> ""]

\* Python truthiness, as `or` reads it
Truthy(x) == (x.t = "num" /\ x.v # 0) \/ (x.t = "str" /\ x.s # "")

\* float(s) of a stripped string: thousandths of a lot, or -1: ValueError
ParseFloat(s) ==
    CASE s = "0.3" -> 300
      [] s = "0.005" -> 5
      [] OTHER -> -1

Parseable(s) == s \in {"0.3", "0.005"}

\* thousandths v ending in 5 whose float lies above the half-way point it
\* prints as: round(0.005, 2) = 0.01, round(0.025, 2) = 0.03 and
\* round(99.995, 2) = 100.0, while round(0.015, 2) = 0.01
FloatTieUp == {5, 25, 99995}

\* round(vol, 2)
Round2(v) ==
    LET lo == (v \div 10) * 10
        r == v % 10
    IN IF r < 5 THEN lo
       ELSE IF r > 5 THEN lo + 10
       ELSE IF v \in FloatTieUp THEN lo + 10 ELSE lo

\* the maximum itself is turned away
validate_volume_below_max(x) ==
    IF x.t = "none" THEN [ok |-> FALSE, vol |-> 0]
    ELSE IF x.t = "str" /\ x.s = "" THEN [ok |-> FALSE, vol |-> 0]
    ELSE IF x.t = "str" /\ ~Parseable(x.s) THEN [ok |-> FALSE, vol |-> 0]
    ELSE LET vol == IF x.t = "str" THEN ParseFloat(x.s) ELSE x.v IN
         IF vol <= 0 THEN [ok |-> FALSE, vol |-> 0]
         ELSE IF vol >= max_lots THEN [ok |-> FALSE, vol |-> 0]
         ELSE IF Round2(vol) < min_lots THEN [ok |-> FALSE, vol |-> 0]
         ELSE [ok |-> TRUE, vol |-> Round2(vol)]

\* validate_volume(volume): <<is_valid, vol>>
validate_volume(x) ==
    IF x.t = "none" THEN [ok |-> FALSE, vol |-> 0]
    ELSE IF x.t = "str" /\ x.s = "" THEN [ok |-> FALSE, vol |-> 0]
    ELSE IF x.t = "str" /\ ~Parseable(x.s) THEN [ok |-> FALSE, vol |-> 0]
    ELSE LET vol == IF x.t = "str" THEN ParseFloat(x.s) ELSE x.v IN
         IF vol <= 0 THEN [ok |-> FALSE, vol |-> 0]
         ELSE IF vol > max_lots THEN [ok |-> FALSE, vol |-> 0]
         ELSE IF Round2(vol) < min_lots THEN [ok |-> FALSE, vol |-> 0]
         ELSE [ok |-> TRUE, vol |-> Round2(vol)]

\* webhook, lines 285-289: the `or` chain over the aliases
ResolveVolume(data) ==
    IF Truthy(data.volume) THEN data.volume
    ELSE IF Truthy(data.lots) THEN data.lots
    ELSE IF Truthy(data.lot_size) THEN data.lot_size
    ELSE IF Truthy(data.size) THEN data.size
    ELSE Num(DEFAULT_VOLUME)

valid_actions == {"BUY", "SELL", "LONG", "SHORT"}

\* webhook, lines 236-300: "ok", or the reason of the 400 answer
Validate(data) ==
    IF \E f \in {data.symbol, data.action} : f = Absent \/ f = ""
    THEN "Missing required fields"
    ELSE IF data.symbol = NonStr THEN "Symbol must be a string"
    ELSE IF data.action = NonStr THEN "Action must be a string"
    ELSE IF StripUpper(data.symbol) = "" THEN "Symbol cannot be empty"
    ELSE IF StripUpper(data.action) \notin valid_actions THEN "Invalid action"
    ELSE IF ~validate_volume(ResolveVolume(data)).ok
    THEN "Lot size validation failed"
    ELSE "ok"

\* webhook, lines 307-316: close_existing, True when the payload has none
webhook_close_existing(data) ==
    LET x == data.close_existing IN
    IF x.t = "none" THEN TRUE
    ELSE IF x.t = "str" THEN x.s \in {"true", "True", "1", "yes", "Yes", "on"}
    ELSE IF x.t = "bool" THEN x.v = 1
    ELSE x.v # 0

\* the action as the webhook reads it, once symbol and action are strings
webhook_action(data) ==
    IF \E f \in {data.symbol, data.action} : f \in {Absent, "", NonStr}
    THEN ""
    ELSE StripUpper(data.action)

\* the action goes to place_order as the webhook read it
place_trade_action_as_is(order_type) == Lower(order_type)

\* mt5_handler.place_trade(order_type=...) hands the order to place_order
place_trade_action(order_type) ==
    CASE order_type \in {"BUY", "LONG"} -> "buy"
      [] order_type \in {"SELL", "SHORT"} -> "sell"
      [] OTHER -> Lower(order_type)

PayloadSymbols == {Absent, "", NonStr, " ", "eurusd "}
PayloadActions == {Absent, "", NonStr, "buy", "Sell", "long", "SHORT", "close", "HOLD"}
PayloadVolumes == {VNone, Num(0), Num(-10), Num(4), Num(300), Num(100010), Str("abc")}
PayloadLots == {VNone, Str("0.3")}
PayloadCloseExisting == {VNone, Flag(TRUE), Flag(FALSE), Str("off"), Str("Yes"), Num(0)}

BasePayload ==
    [symbol |-> "eurusd ", action |-> "buy", volume |-> Num(300),
     lots |-> VNone, lot_size |-> VNone, size |-> VNone,
     close_existing |-> VNone, stop_loss |-> VNone, take_profit |-> VNone]

\* the payloads posted to /trade: each field varied around a valid payload
Payloads ==
    {[BasePayload EXCEPT !.symbol = x] : x \in PayloadSymbols}
        \cup {[BasePayload EXCEPT !.action = x] : x \in PayloadActions}
        \cup {[BasePayload EXCEPT !.volume = x, !.lots = y] :
                 x \in PayloadVolumes, y \in PayloadLots}
        \cup {[BasePayload EXCEPT !.action = "Sell", !.volume = VNone]}
        \cup {[BasePayload EXCEPT !.close_existing = x] : x \in PayloadCloseExisting}
        \cup {[BasePayload EXCEPT !.stop_loss = Num(90), !.take_profit = Num(110)]}

\* the volumes the normalisation is given: around 0, the minimum, the
\* half-way points and the maximum
VolumeInputs ==
    {VNone, Str(""), Str("abc"), Str("0.3"), Str("0.005")}
        \cup {Num(n) : n \in {-10, 0, 4, 5, 6, 10, 14, 15, 16, 20, 25, 300,
                              99990, 99994, 99995, 99996, 100000, 100004,
                              100010}}

\* the payloads of the volume normalisation: the aliases varied
VolumePayloads ==
    {[BasePayload EXCEPT !.volume = x, !.lots = y] :
        x \in VolumeInputs, y \in PayloadLots}
        \cup {[BasePayload EXCEPT !.volume = x, !.lot_size = y, !.size = z] :
                 x \in {VNone, Num(0)}, y \in {VNone, Num(20)},
                 z \in {VNone, Num(0), Str("0.3")}}

\* no normalisation made yet
NotYet == [ok |-> FALSE, vol |-> -1]

\* --------------------------------------------------------------- actions
\* the server's threads are alike: a request goes to the first free one
FirstFree(w) == w = "w1" \/ pc["w1"] # "idle"

\* the handler looks the symbol up at the venue before it validates
RejectAfterLookup(w, data) ==
    /\ pc' = [pc EXCEPT ![w] = "done"]
    /\ status' = [status EXCEPT ![w] = 400]
    /\ message' = [message EXCEPT ![w] = Validate(data)]
    /\ req' = [req EXCEPT ![w].entry = "webhook",
                           ![w].order_type = webhook_action(data)]
    /\ named' = [named EXCEPT ![w] =
                    IF connected /\ data.symbol \notin {Absent, NonStr, ""}
                    THEN @ \cup {get_symbol_with_suffix(StripUpper(data.symbol))}
                    ELSE @]

\* webhook, lines 242-300: a validation failure is answered at once with 400
Reject(w, data) ==
    /\ pc' = [pc EXCEPT ![w] = "done"]
    /\ status' = [status EXCEPT ![w] = 400]
    /\ message' = [message EXCEPT ![w] = Validate(data)]
    /\ req' = [req EXCEPT ![w].entry = "webhook",
                           ![w].order_type = webhook_action(data)]
    /\ UNCHANGED named

\* webhook, lines 233-336: validation, the connection check, the trade call
Webhook(w, data) ==
    /\ pc[w] = "idle"
    /\ FirstFree(w)
    /\ IF Validate(data) # "ok"
       THEN Reject(w, data)
       ELSE IF ~connected
       THEN /\ pc' = [pc EXCEPT ![w] = "done"]
            /\ status' = [status EXCEPT ![w] = 500]
            /\ message' = [message EXCEPT ![w] = "MT5 connection is not available"]
            /\ req' = [req EXCEPT ![w].entry = "webhook",
                                   ![w].order_type = webhook_action(data),
                                   ![w].close_existing = webhook_close_existing(data)]
            /\ UNCHANGED named
       ELSE /\ pc' = [pc EXCEPT ![w] = "place_order"]
            /\ req' = [req EXCEPT ![w] =
                         [entry |-> "webhook",
                          symbol |-> StripUpper(data.symbol),
                          action |-> place_trade_action(StripUpper(data.action)),
                          volume |-> validate_volume(ResolveVolume(data)).vol,
                          order_type |-> webhook_action(data),
                          close_existing |-> webhook_close_existing(data),
                          stop_loss |-> 0, take_profit |-> 0,
                          sl_given |-> data.stop_loss.v,
                          tp_given |-> data.take_profit.v]]
            /\ UNCHANGED <<status, named, message>>
    /\ UNCHANGED <<sessionVars, volumeVars, venueVars, symbol, snap, idx, remaining, closed,
                   legs, ret, seen, tick>>

\* a caller of the handler invokes
\* place_order(symbol, action, volume, stop_loss, take_profit)
PlaceOrderCall(w, s, a, v, sl, tp) ==
    /\ pc[w] = "idle"
    /\ FirstFree(w)
    /\ pc' = [pc EXCEPT ![w] = "place_order"]
    /\ req' = [req EXCEPT ![w] =
                 [entry |-> "direct", symbol |-> s, action |-> a, volume |-> v,
                  order_type |-> "", close_existing |-> TRUE,
                  stop_loss |-> sl, take_profit |-> tp,
                  sl_given |-> sl, tp_given |-> tp]]
    /\ UNCHANGED <<sessionVars, volumeVars, venueVars, localVars, legs, named, ret, status, seen>>

\* place_order, lines 146-162: connection check, symbol_info, symbol_info_tick
PoStart(w) ==
    /\ pc[w] = "place_order"
    /\ IF ~connected
       THEN Return(w, None) /\ UNCHANGED <<symbol, named, tick>>
       ELSE LET s == get_symbol_with_suffix(req[w].symbol) IN
            /\ symbol' = [symbol EXCEPT ![w] = s]
            /\ named' = [named EXCEPT ![w] = @ \cup {s}]
            /\ \E tickNone \in MayFail :
                 /\ Spend(tickNone /\ s \in VenueInstruments)
                 /\ tick' = [tick EXCEPT ![w] =
                                 IF s \notin VenueInstruments THEN @
                                 ELSE IF tickNone THEN -1 ELSE Len(legs[w])]
                 /\ IF s \notin VenueInstruments \/ tickNone
                    THEN Return(w, None)
                    ELSE /\ pc' = [pc EXCEPT ![w] = "branch"]
                         /\ UNCHANGED <<ret, status>>
    /\ IF ~connected THEN UNCHANGED faultsLeft ELSE TRUE
    /\ UNCHANGED <<sessionVars, volumeVars, book, lastTicket, envTrades, req, snap, idx,
                   remaining, closed, message, legs, seen>>

\* the names get_positions(s) gives to the venue: none while not connected
PositionsNamed(s) == IF connected THEN {get_symbol_with_suffix(s)} ELSE {}

\* place_order, lines 165-195: the branch on the action and its position read
PoBranch(w) ==
    /\ pc[w] = "branch"
    /\ seen' = [seen EXCEPT ![w] =
                   positions_get(get_symbol_with_suffix(req[w].symbol))]
    /\ LET a == Lower(req[w].action) IN
       \/ /\ a \in {"buy", "sell"}
          /\ \E raised \in (IF connected THEN MayFail ELSE {FALSE}) :
               LET t == IF a = "buy" THEN SELL ELSE BUY
                   ps == OfType(get_positions(symbol[w], raised), t)
               IN /\ pc' = [pc EXCEPT ![w] =
                               IF ps # <<>> THEN "close_all" ELSE "open"]
                  /\ Spend(raised)
          /\ named' = [named EXCEPT ![w] = @ \cup PositionsNamed(symbol[w])]
          /\ UNCHANGED <<snap, idx, remaining, closed, ret, status>>
       \/ /\ a = "close"
          /\ \E raised \in (IF connected THEN MayFail ELSE {FALSE}) :
               LET s2 == get_symbol_with_suffix(symbol[w])
                   ps == get_positions(s2, raised)
               IN /\ snap' = [snap EXCEPT ![w] = ps]
                  /\ Spend(raised)
                  /\ idx' = [idx EXCEPT ![w] = 1]
                  /\ remaining' = [remaining EXCEPT ![w] = req[w].volume]
                  /\ closed' = [closed EXCEPT ![w] = <<>>]
                  /\ named' = [named EXCEPT ![w] = @ \cup PositionsNamed(s2)]
                  /\ IF ps = <<>> \/ req[w].volume <= 0
                     THEN ReturnClose(w, <<>>)
                     ELSE /\ pc' = [pc EXCEPT ![w] = "close_by_volume"]
                          /\ UNCHANGED <<ret, status>>
       \/ /\ a \notin {"buy", "sell", "close"}
          /\ Return(w, None)
          /\ UNCHANGED <<snap, idx, remaining, closed, named, faultsLeft>>
    /\ UNCHANGED <<sessionVars, volumeVars, book, lastTicket, envTrades, req, symbol,
                   message, legs, tick>>

\* the position type a buy/sell request closes first
CloseType(w) == IF Lower(req[w].action) = "buy" THEN SELL ELSE BUY

\* close_all_positions_by_type, lines 63-68: its own position read
CloseAllEnter(w) ==
    /\ pc[w] = "close_all"
    /\ \E raised \in (IF connected THEN MayFail ELSE {FALSE}) :
         LET s2 == get_symbol_with_suffix(symbol[w])
             ps == get_positions(s2, raised)
             i == NextMatch(ps, 1, CloseType(w))
         IN /\ snap' = [snap EXCEPT ![w] = ps]
            /\ Spend(raised)
            /\ idx' = [idx EXCEPT ![w] = i]
            /\ named' = [named EXCEPT ![w] = @ \cup PositionsNamed(s2)]
            /\ pc' = [pc EXCEPT ![w] =
                         IF i > Len(ps) THEN "open" ELSE "close_all_loop"]
    /\ closed' = [closed EXCEPT ![w] = <<>>]
    /\ UNCHANGED <<sessionVars, volumeVars, book, lastTicket, envTrades, req, symbol,
                   remaining, message, legs, ret, status, seen, tick>>

\* close_all_positions_by_type, lines 69-97: one position of the loop
CloseAllLeg(w) ==
    /\ pc[w] = "close_all_loop"
    /\ LET p == snap[w][idx[w]]
           s2 == get_symbol_with_suffix(symbol[w])
       IN \E o \in CloseOutcomes(p.ticket, s2, p.volume) :
            /\ legs' = [legs EXCEPT ![w] = Append(@, CloseLeg(p, p.volume, o, Len(legs[w])))]
            /\ Spend(IsFault(o, HasPosition(p.ticket, s2, p.volume)))
            /\ book' = IF o = "done" THEN Reduce(book, p.ticket, p.volume) ELSE book
            /\ closed' = [closed EXCEPT ![w] =
                             IF o = "done" THEN Append(@, p.ticket) ELSE @]
            /\ named' = [named EXCEPT ![w] = @ \cup {s2}]
            /\ idx' = [idx EXCEPT ![w] = NextLeg(w, o)]
            /\ pc' = [pc EXCEPT ![w] =
                         IF NextLeg(w, o) > Len(snap[w]) THEN "open"
                         ELSE "close_all_loop"]
    /\ UNCHANGED <<sessionVars, volumeVars, lastTicket, envTrades, req, symbol, snap,
                   remaining, message, ret, status, seen, tick>>

\* close_position_by_volume, lines 110-142: one position of the loop
CloseByVolumeLeg(w) ==
    /\ pc[w] = "close_by_volume"
    /\ LET p == snap[w][idx[w]]
           s2 == get_symbol_with_suffix(symbol[w])
           cv == close_volume(p, remaining[w])
       IN \E o \in CloseOutcomes(p.ticket, s2, cv) :
            LET rem2 == remaining_after(remaining[w], cv, o)
                closed2 == IF o = "done" THEN Append(closed[w], p.ticket)
                           ELSE closed[w]
            IN /\ legs' = [legs EXCEPT ![w] = Append(@, CloseLeg(p, cv, o, Len(legs[w])))]
               /\ Spend(IsFault(o, HasPosition(p.ticket, s2, cv)))
               /\ book' = IF o = "done" THEN Reduce(book, p.ticket, cv)
                          ELSE book
               /\ closed' = [closed EXCEPT ![w] = closed2]
               /\ remaining' = [remaining EXCEPT ![w] = rem2]
               /\ named' = [named EXCEPT ![w] = @ \cup {s2}]
               /\ idx' = [idx EXCEPT ![w] = @ + 1]
               /\ IF idx[w] + 1 > Len(snap[w]) \/ rem2 <= 0
                  THEN ReturnClose(w, closed2)
                  ELSE UNCHANGED <<pc, ret, status>>
    /\ UNCHANGED <<sessionVars, volumeVars, lastTicket, envTrades, req, symbol, snap,
                   message, seen, tick>>

\* place_order, lines 197-242: the open order and the result
PoOpen(w) ==
    /\ pc[w] = "open"
    /\ LET buy == Lower(req[w].action) = "buy"
           order_type == IF buy THEN BUY ELSE SELL
           price == IF buy THEN "ask" ELSE "bid"
       IN \E o \in {"done"} \cup (IF faultsLeft > 0 THEN {"rejected", "senderr"} ELSE {}) :
            /\ legs' = [legs EXCEPT ![w] =
                           Append(@, OpenLeg(order_type, req[w].volume, price, o, tick[w],
                                             req[w].stop_loss, req[w].take_profit))]
            /\ Spend(o # "done")
            /\ named' = [named EXCEPT ![w] = @ \cup {symbol[w]}]
            /\ IF o = "done"
               THEN /\ lastTicket' = lastTicket + 1
                    /\ book' = Append(book,
                                 [ticket |-> lastTicket + 1, symbol |-> symbol[w],
                                  type |-> order_type, volume |-> req[w].volume])
                    /\ AfterOpen(w, OrderResult(TRUE, lastTicket + 1))
               ELSE /\ UNCHANGED <<book, lastTicket>>
                    /\ AfterOpen(w, IF o = "rejected" THEN OrderResult(FALSE, 0)
                                    ELSE None)
    /\ UNCHANGED <<sessionVars, volumeVars, envTrades, req, localVars, seen>>

\* connect(), lines 16-33: ok when initialize and login succeed
Connect ==
    /\ sessionCalls < MaxSessionCalls
    /\ sessionCalls' = sessionCalls + 1
    /\ \E ok \in BOOLEAN :
         /\ connected' = IF ok THEN TRUE ELSE connected
         /\ lastCall' = IF ok THEN "connect_true" ELSE "connect_false"
    /\ UNCHANGED <<symbol_suffix, venueVars, volumeVars, pc, req, localVars, legs, named,
                   ret, status, seen>>

\* disconnect(), lines 35-39
Disconnect ==
    /\ sessionCalls < MaxSessionCalls
    /\ sessionCalls' = sessionCalls + 1
    /\ connected' = FALSE
    /\ lastCall' = "disconnect"
    /\ UNCHANGED <<symbol_suffix, venueVars, volumeVars, pc, req, localVars, legs, named,
                   ret, status, seen>>

\* the account's positions change outside the bridge while a request runs:
\* the terminal's user or a stop-loss closes a position, or opens one
EnvTrade ==
    /\ envTrades < MaxEnvTrades
    /\ \E w \in Workers : pc[w] \notin {"idle", "done"}
    /\ envTrades' = envTrades + 1
    /\ \/ /\ \E i \in 1..Len(book) :
               book' = Reduce(book, book[i].ticket, book[i].volume)
          /\ UNCHANGED lastTicket
       \/ /\ \E s \in {x \o symbol_suffix : x \in Symbols}, t \in {BUY, SELL},
                 v \in PosVolumes :
               book' = Append(book, [ticket |-> lastTicket + 1, symbol |-> s,
                                     type |-> t, volume |-> v])
          /\ lastTicket' = lastTicket + 1
    /\ UNCHANGED <<sessionVars, volumeVars, faultsLeft, pc, req, localVars, legs, named,
                   ret, status, seen>>

\* the venue calls of the handler (symbol_info, symbol_info_tick,
\* positions_get, order_send) are blocking calls made without a timeout:
\* when the terminal does not answer, the thread waits in the call
VenueCallHangs(w) ==
    /\ pc[w] \in {"place_order", "branch", "close_all", "close_all_loop",
                  "close_by_volume", "open"}
    /\ connected
    /\ pc' = [pc EXCEPT ![w] = "in_venue_call"]
    /\ UNCHANGED <<sessionVars, volumeVars, venueVars, req, localVars, legs, named, ret,
                   status, seen>>

\* the steps of the request a worker handles
Handle(w) ==
    \/ PoStart(w)
    \/ PoBranch(w)
    \/ CloseAllEnter(w)
    \/ CloseAllLeg(w)
    \/ CloseByVolumeLeg(w)
    \/ PoOpen(w)

\* webhook, lines 285-293: the volume of the payload, resolved and validated
NormalizeVolume ==
    /\ norm = NotYet
    /\ norm' = validate_volume(ResolveVolume(given))
    /\ UNCHANGED <<sessionVars, venueVars, pc, req, localVars, legs, named, ret,
                   status, seen, given, again>>

\* validate_volume, lines 27-59, applied to a volume it has accepted
NormalizeAgain ==
    /\ norm.ok
    /\ again = NotYet
    /\ again' = validate_volume(Num(norm.vol))
    /\ UNCHANGED <<sessionVars, venueVars, pc, req, localVars, legs, named, ret,
                   status, seen, given, norm>>

\* ------------------------------------------------------------------ Init
Position(k, s, t, v) == [ticket |-> k, symbol |-> s, type |-> t, volume |-> v]

\* the books the venue may hold when the bridge starts: tickets in order
Books(suffix) ==
    UNION {
        {[k \in 1..n |-> Position(k, f[k].symbol \o suffix, f[k].type, f[k].volume)] :
            f \in [1..n ->
                    [symbol : Symbols, type : {BUY, SELL}, volume : PosVolumes]
                        \cup [symbol : OtherSymbols, type : {SELL}, volume : {500}]]} :
        n \in 0..MaxPos}

\* no request has arrived
NoRequests ==
    /\ pc = [w \in Workers |-> "idle"]
    /\ req = [w \in Workers |-> NoReq]
    /\ symbol = [w \in Workers |-> ""]
    /\ snap = [w \in Workers |-> <<>>]
    /\ idx = [w \in Workers |-> 0]
    /\ remaining = [w \in Workers |-> 0]
    /\ closed = [w \in Workers |-> <<>>]
    /\ legs = [w \in Workers |-> <<>>]
    /\ named = [w \in Workers |-> {}]
    /\ ret = [w \in Workers |-> None]
    /\ status = [w \in Workers |-> 0]
    /\ message = [w \in Workers |-> ""]
    /\ seen = [w \in Workers |-> <<>>]
    /\ tick = [w \in Workers |-> 0]

InitWith(faults) ==
    /\ connected = FALSE
    /\ symbol_suffix \in Suffixes
    /\ sessionCalls = 0
    /\ lastCall = "none"
    /\ book \in Books(symbol_suffix)
    /\ lastTicket = Len(book)
    /\ faultsLeft = faults
    /\ envTrades = 0
    /\ NoRequests
    /\ given = BasePayload
    /\ norm = NotYet
    /\ again = NotYet

Init == InitWith(MaxFaults)

\* the volume normalisation on its own, for every payload of VolumePayloads
InitVolume ==
    /\ connected = FALSE
    /\ symbol_suffix = ""
    /\ sessionCalls = 0
    /\ lastCall = "none"
    /\ book = <<>>
    /\ lastTicket = 0
    /\ faultsLeft = 0
    /\ envTrades = 0
    /\ NoRequests
    /\ given \in VolumePayloads
    /\ norm = NotYet
    /\ again = NotYet

\* the requests of the threads are for one instrument: the account holds
\* positions of that instrument only, and the venue answers every call
InitThreads ==
    /\ InitWith(MaxThreadFaults)
    /\ \A i \in 1..Len(book) : book[i].symbol = "EURUSD" \o symbol_suffix

\* the calls of place_order made by callers other than the webhook
PlaceOrderCalls ==
    {<<"EURUSD", "buy", 300, 0, 0>>, <<"EURUSD", "buy", 300, 90, 110>>,
     <<"EURUSD", "sell", 1500, 0, 0>>, <<"EURUSD", "close", 300, 0, 0>>,
     <<"EURUSD", "close", 1500, 0, 0>>, <<"EURUSD", "hold", 300, 0, 0>>}
    \cup {<<s, "buy", 300, 0, 0>> : s \in UnlistedSymbols}

\* one request, every pattern of venue failures, the account changing under it
Next ==
    \/ \E data \in Payloads : Webhook("w1", data)
    \/ \E c \in PlaceOrderCalls : PlaceOrderCall("w1", c[1], c[2], c[3], c[4], c[5])
    \/ PoStart("w1")
    \/ PoBranch("w1")
    \/ CloseAllEnter("w1")
    \/ CloseAllLeg("w1")
    \/ CloseByVolumeLeg("w1")
    \/ PoOpen("w1")
    \/ Connect
    \/ Disconnect
    \/ EnvTrade

Spec == Init /\ [][Next]_vars

\* the threaded server (app.run(threaded=True)): one thread per request
NextThreads ==
    \/ \E w \in Workers, data \in Payloads : Webhook(w, data)
    \/ \E w \in Workers, c \in PlaceOrderCalls :
         PlaceOrderCall(w, c[1], c[2], c[3], c[4], c[5])
    \/ \E w \in Workers : PoStart(w)
    \/ \E w \in Workers : PoBranch(w)
    \/ \E w \in Workers : CloseAllEnter(w)
    \/ \E w \in Workers : CloseAllLeg(w)
    \/ \E w \in Workers : CloseByVolumeLeg(w)
    \/ \E w \in Workers : PoOpen(w)
    \/ Connect
    \/ Disconnect

SpecThreads == InitThreads /\ [][NextThreads]_vars

\* one request on a venue that may stop answering; the request's thread is
\* scheduled as long as it has a step to take
NextLive ==
    \/ \E data \in Payloads : Webhook("w1", data)
    \/ \E c \in PlaceOrderCalls : PlaceOrderCall("w1", c[1], c[2], c[3], c[4], c[5])
    \/ PoStart("w1")
    \/ PoBranch("w1")
    \/ CloseAllEnter("w1")
    \/ CloseAllLeg("w1")
    \/ CloseByVolumeLeg("w1")
    \/ PoOpen("w1")
    \/ VenueCallHangs("w1")
    \/ Connect
    \/ Disconnect

NextVolume ==
    \/ NormalizeVolume
    \/ NormalizeAgain

SpecVolume == InitVolume /\ [][NextVolume]_vars

SpecLive == InitThreads /\ [][NextLive]_vars /\ WF_vars(Handle("w1"))

\* ---------------------------------------------------------------- claims
LegIdx(w) == 1..Len(legs[w])
CloseIdx(w) == {i \in LegIdx(w) : legs[w][i].kind = "close"}
OpenIdx(w) == {i \in LegIdx(w) : legs[w][i].kind = "open"}
IsBuySell(w) == Lower(req[w].action) \in {"buy", "sell"}
IsClose(w) == Lower(req[w].action) = "close"

RECURSIVE CloseVolume(_)
CloseVolume(ls) ==
    IF ls = <<>> THEN 0
    ELSE (IF Head(ls).kind = "close" THEN Head(ls).volume ELSE 0)
             + CloseVolume(Tail(ls))

RECURSIVE TotalVolume(_)
TotalVolume(ps) ==
    IF ps = <<>> THEN 0 ELSE Head(ps).volume + TotalVolume(Tail(ps))

\* C1: in every request no close order is attempted after the open order:
\* every close leg of a request precedes its open leg.
C1_ClosesBeforeOpen ==
    \A w \in Workers : \A i \in OpenIdx(w) : \A j \in CloseIdx(w) : j < i

C1_Witness ==
    \E w \in Workers :
        /\ pc[w] = "done"
        /\ IsBuySell(w)
        /\ Len(legs[w]) = 3
        /\ legs[w][1].kind = "close" /\ legs[w][1].outcome = "done"
        /\ legs[w][2].kind = "close" /\ legs[w][2].outcome = "done"
        /\ legs[w][3].kind = "open" /\ legs[w][3].outcome = "done"

\* C2: a request sends at most one open order, whatever its action, the book
\* and the outcomes of its close orders; a close request sends none.
C2_AtMostOneOpen ==
    \A w \in Workers :
        /\ Cardinality(OpenIdx(w)) <= 1
        /\ IsClose(w) => OpenIdx(w) = {}

C2_Witness ==
    \E w \in Workers :
        /\ pc[w] = "done"
        /\ Lower(req[w].action) = "sell"
        /\ \E i, j \in CloseIdx(w) :
              legs[w][i].outcome = "rejected" /\ legs[w][j].outcome = "senderr"
        /\ Cardinality(OpenIdx(w)) = 1

\* C3: the volumes of the close orders of a request add up to at most the
\* total volume of the position snapshot its close helper read, whatever the
\* book and whichever legs succeed or fail.
C3_ClosedVolumeBounded ==
    \A w \in Workers : CloseVolume(legs[w]) <= TotalVolume(snap[w])

C3_Witness ==
    \E w \in Workers :
        /\ pc[w] = "done"
        /\ IsClose(w)
        /\ Len(legs[w]) = 2
        /\ legs[w][1].outcome = "rejected"
        /\ legs[w][2].outcome = "done"
        /\ CloseVolume(legs[w]) = TotalVolume(snap[w])

\* a request is between its position read and its last order submission
InSpan(w) == pc[w] \in {"close_all", "close_all_loop", "close_by_volume", "open"}

\* C4: two webhook requests for the same symbol are never both between
\* their position read and their last order submission.
C4_NoOverlap ==
    \A a, b \in Workers :
        (/\ a # b
         /\ req[a].entry = "webhook" /\ req[b].entry = "webhook"
         /\ req[a].symbol = req[b].symbol)
        => ~(InSpan(a) /\ InSpan(b))

\* C5: under every interleaving of two requests, no close order is sent for
\* a position that the other request has changed since the snapshot was read
\* (no double close, no close from an invalidated snapshot).
C5_NoStaleClose ==
    \A w \in Workers : \A i \in CloseIdx(w) :
        Submitted(legs[w][i]) => ~legs[w][i].stale

\* C6: once a close order was rejected, the finished request has still
\* attempted every position it selected for closing and, for buy/sell, has
\* sent the open order: a rejection does not end the request early.
C6_RejectionContinues ==
    \A w \in Workers :
        (pc[w] = "done" /\ \E i \in CloseIdx(w) : legs[w][i].outcome = "rejected")
        => IF IsClose(w)
           THEN Len(legs[w]) = Len(snap[w]) \/ remaining[w] <= 0
           ELSE /\ \A k \in 1..Len(snap[w]) :
                     snap[w][k].type = CloseType(w)
                     => \E i \in CloseIdx(w) : legs[w][i].ticket = snap[w][k].ticket
                /\ \E j \in OpenIdx(w) : Submitted(legs[w][j])

C6_Witness ==
    \E w \in Workers :
        /\ pc[w] = "done"
        /\ Lower(req[w].action) = "buy"
        /\ Len(legs[w]) = 3
        /\ legs[w][1].kind = "close" /\ legs[w][1].outcome = "rejected"
        /\ legs[w][2].kind = "close" /\ legs[w][2].outcome = "done"
        /\ legs[w][3].kind = "open"

\* C7: after a close leg on which the gateway failed (the quote or the order
\* submission raised), no later leg of the request is submitted.
C7_GatewayErrorStopsLegs ==
    \A w \in Workers : \A i \in CloseIdx(w) :
        legs[w][i].outcome \in {"tickerr", "senderr"}
        => \A j \in LegIdx(w) : j > i => ~Submitted(legs[w][j])

\* C8: no order is sent twice: within a request every ticket gets at most one
\* close order and the open order goes out at most once, whether the venue
\* answered done, rejected, or the call raised.
C8_NoRetry ==
    \A w \in Workers :
        /\ \A i, j \in CloseIdx(w) : i # j => legs[w][i].ticket # legs[w][j].ticket
        /\ \A i, j \in OpenIdx(w) : i = j

C8_Witness ==
    \E w \in Workers :
        /\ pc[w] = "done"
        /\ \E i \in CloseIdx(w) : legs[w][i].outcome = "senderr"
        /\ \E j \in OpenIdx(w) : legs[w][j].outcome = "senderr"

C10_OneClosePerOpposite ==
    \A w \in Workers :
        (/\ ret[w].kind = "order"
         /\ faultsLeft = MaxFaults /\ envTrades = 0 /\ sessionCalls <= 1)
        => LET opp == OfType(seen[w], CloseType(w)) IN
           /\ Len(legs[w]) = Len(opp) + 1
           /\ \A k \in 1..Len(opp) :
                 /\ legs[w][k].kind = "close"
                 /\ legs[w][k].ticket = opp[k].ticket
                 /\ legs[w][k].volume = opp[k].volume
           /\ legs[w][Len(opp) + 1].kind = "open"

\* C11: a buy or sell webhook whose close_existing is false sends no close
\* order, whatever opposite positions the account holds: only the open order.
C11_NoCloseWithoutCloseExisting ==
    \A w \in Workers :
        (req[w].entry = "webhook" /\ ~req[w].close_existing)
        => CloseIdx(w) = {}

\* C12: the legs of a close request follow the snapshot in its order, the
\* i-th leg closing min(requested volume less the volumes of the earlier
\* legs, volume of the i-th position), and no leg is sent once the legs add
\* up to the requested volume.
C12_CloseByVolumePlan ==
    \A w \in Workers :
        IsClose(w) =>
        \A i \in LegIdx(w) :
            LET rest == req[w].volume - CloseVolume(SubSeq(legs[w], 1, i - 1)) IN
            /\ rest > 0
            /\ legs[w][i].ticket = snap[w][i].ticket
            /\ legs[w][i].volume = Min(rest, snap[w][i].volume)

\* C13: a close request for more than the account holds, with every venue
\* call succeeding, closes every position and returns a result whose success
\* is true and which reports the shortfall in a message.
C13_ShortfallIsSuccess ==
    \A w \in Workers :
        (/\ pc[w] = "done" /\ IsClose(w) /\ ret[w].kind = "close"
         /\ seen[w] # <<>>
         /\ req[w].volume > TotalVolume(seen[w])
         /\ faultsLeft = MaxFaults /\ envTrades = 0)
        => /\ Len(ret[w].closed) = Len(seen[w])
           /\ "success" \in ret[w].keys /\ ret[w].success
           /\ "message" \in ret[w].keys

\* the result says success = true
Succeeded(r) == "success" \in r.keys /\ r.success

\* C14: the result of a finished request that sent orders has success = true
\* exactly when its open order was executed or, for a close request, when
\* every close order was executed.
C14_SuccessIffOpen ==
    \A w \in Workers :
        (pc[w] = "done" /\ legs[w] # <<>>) =>
        IF IsClose(w)
        THEN Succeeded(ret[w]) <=> \A i \in CloseIdx(w) : legs[w][i].outcome = "done"
        ELSE Succeeded(ret[w]) <=> \E i \in OpenIdx(w) : legs[w][i].outcome = "done"

\* C15: every order sent is priced on the uniform side: a sell order (closing
\* a long, opening a short) at the bid, a buy order (closing a short, opening
\* a long) at the ask, in both close helpers and in place_order.
C15_UniformPriceSide ==
    \A w \in Workers : \A i \in LegIdx(w) :
        Submitted(legs[w][i])
        => legs[w][i].price = IF legs[w][i].type = SELL THEN "bid" ELSE "ask"

C15_Witness ==
    \E w \in Workers :
        /\ pc[w] = "done"
        /\ Len(legs[w]) = 2
        /\ legs[w][1].kind = "close" /\ legs[w][1].type = SELL
        /\ legs[w][1].outcome = "done" /\ legs[w][1].price = "bid"
        /\ legs[w][2].kind = "open" /\ legs[w][2].type = SELL
        /\ legs[w][2].outcome = "done" /\ legs[w][2].price = "bid"

\* C16: every order sent is priced from a quote read after all earlier orders
\* of the request were sent: no quote is carried across an order submission.
C16_FreshQuote ==
    \A w \in Workers : \A i \in LegIdx(w) :
        Submitted(legs[w][i]) => legs[w][i].quoted = i - 1

\* C17: the status of a /trade response follows the kind of outcome: 400 for
\* a validation error, 503 when the bridge is not connected or the gateway
\* failed, 200 when the open order was executed, 500 when the venue rejected it.
C17_StatusByOutcome ==
    \A w \in Workers :
        (req[w].entry = "webhook" /\ pc[w] = "done") =>
        status[w] =
            CASE message[w] = "MT5 connection is not available" -> 503
              [] message[w] # "" -> 400
              [] \E i \in OpenIdx(w) : legs[w][i].outcome = "done" -> 200
              [] \E i \in OpenIdx(w) : legs[w][i].outcome = "rejected" -> 500
              [] \E i \in OpenIdx(w) : legs[w][i].outcome = "senderr" -> 503
              [] OTHER -> status[w]

\* C18: every request that entered place_order eventually finishes, also
\* when a venue call does not return.
C18_RequestTerminates ==
    \A w \in Workers : (pc[w] = "place_order") ~> (pc[w] = "done")

C20_CloseAccepted ==
    \A w \in Workers :
        (req[w].entry = "webhook" /\ req[w].order_type = "CLOSE")
        => status[w] # 400

\* an alias the payload carries
Present(x) == x.t # "none"

\* the first alias present, in the order volume, lots, lot_size, size
FirstPresent(data) ==
    IF Present(data.volume) THEN data.volume
    ELSE IF Present(data.lots) THEN data.lots
    ELSE IF Present(data.lot_size) THEN data.lot_size
    ELSE IF Present(data.size) THEN data.size
    ELSE Num(DEFAULT_VOLUME)

\* C21: the volume validated is the first alias present in the payload, in
\* the order volume, lots, lot_size, size, and the default only when none is
\* present: a present value is never skipped.
C21_FirstPresentAlias ==
    norm # NotYet => norm = validate_volume(FirstPresent(given))

\* v rounded to two decimals, a half-way value going to the even neighbour
HalfEven(v) ==
    LET lo == (v \div 10) * 10
        r == v % 10
    IN IF r < 5 THEN lo
       ELSE IF r > 5 THEN lo + 10
       ELSE IF (lo \div 10) % 2 = 0 THEN lo ELSE lo + 10

Unparseable(x) == x.t = "none" \/ (x.t = "str" /\ ~Parseable(x.s))

Value(x) == IF x.t = "str" THEN ParseFloat(x.s) ELSE x.v

\* C22: a volume is rejected exactly when it is unparseable, is <= 0, or
\* rounded to two decimals is above 100 or below 0.01 (0.005 is rejected);
\* an accepted volume has two decimals and lies in [0.01, 100.0].
C22_VolumeBounds ==
    norm # NotYet =>
    LET x == ResolveVolume(given) IN
    /\ ~norm.ok <=> \/ Unparseable(x)
                    \/ Value(x) <= 0
                    \/ HalfEven(Value(x)) > max_lots
                    \/ HalfEven(Value(x)) < min_lots
    /\ norm.ok => /\ norm.vol % 10 = 0
                  /\ min_lots <= norm.vol /\ norm.vol <= max_lots

\* C23: a volume of two decimals in [0.01, 100.0] is accepted and returned
\* as it is, so validate_volume applied to a volume it accepted returns the
\* same volume.
C23_Idempotent ==
    /\ again # NotYet => again = norm
    /\ norm # NotYet =>
        LET x == ResolveVolume(given) IN
        (x.t = "num" /\ x.v % 10 = 0 /\ min_lots <= x.v /\ x.v <= max_lots)
        => norm = [ok |-> TRUE, vol |-> x.v]

C23_Witness ==
    /\ given.volume = Num(99996)
    /\ norm = [ok |-> TRUE, vol |-> max_lots]
    /\ again = norm

\* the tickets of the close orders the venue executed, in submission order
RECURSIVE DoneTickets(_)
DoneTickets(ls) ==
    IF ls = <<>> THEN <<>>
    ELSE (IF Head(ls).kind = "close" /\ Head(ls).outcome = "done"
          THEN <<Head(ls).ticket>> ELSE <<>>) \o DoneTickets(Tail(ls))

\* C24: the result of a finished request lists exactly the tickets whose
\* close order the venue executed, in submission order, for buy and sell as
\* for close, and carries the ticket of the position opened.
C24_ClosedTicketsReported ==
    \A w \in Workers :
        (pc[w] = "done" /\ ret[w].kind \in {"order", "close"}) =>
        /\ ret[w].closed = DoneTickets(legs[w])
        /\ (\E i \in OpenIdx(w) : legs[w][i].outcome = "done") => ret[w].ticket > 0

\* C25: when the venue rejects the open order the result says success =
\* false and carries the venue's reason as its message.
C25_RejectionMessage ==
    \A w \in Workers :
        (pc[w] = "done" /\ \E i \in OpenIdx(w) : legs[w][i].outcome = "rejected")
        => /\ ret[w].kind = "order"
           /\ "success" \in ret[w].keys /\ ~ret[w].success
           /\ "message" \in ret[w].keys

\* C26: the open order carries the volume of the request, whatever was
\* closed before it, and the stop-loss and take-profit the incoming request
\* provided.
C26_OpenCarriesIntent ==
    \A w \in Workers : \A i \in OpenIdx(w) :
        /\ legs[w][i].volume = req[w].volume
        /\ legs[w][i].sl = req[w].sl_given
        /\ legs[w][i].tp = req[w].tp_given

\* position p is none of the request's to close: another instrument, or
\* for a buy (sell) a long (short)
NotItsToClose(w, p) ==
    \/ p.symbol # req[w].symbol \o symbol_suffix
    \/ Lower(req[w].action) \in {"buy", "sell"} /\ p.type # CloseType(w)

\* C27: a request sends close orders only for positions of its own
\* instrument, a buy only for shorts and a sell only for longs; every other
\* position is left as it is by each step of the request.
C27_OnlyOppositeOfInstrument ==
    [][\A w \in Workers :
         /\ \A i \in 1..Len(legs'[w]) :
               legs'[w][i].kind = "close" =>
               /\ legs'[w][i].of = req'[w].symbol \o symbol_suffix
               /\ Lower(req'[w].action) = "buy" => legs'[w][i].type = BUY
               /\ Lower(req'[w].action) = "sell" => legs'[w][i].type = SELL
         /\ \A i \in 1..Len(book) :
               (/\ envTrades' = envTrades
                /\ pc[w] \notin {"idle", "done"}
                /\ \A v \in Workers \ {w} : pc[v] \in {"idle", "done"}
                /\ NotItsToClose(w, book[i]))
               => \E j \in 1..Len(book') : book'[j] = book[i]]_vars

C27_Witness ==
    \E w \in Workers :
        /\ pc[w] = "done"
        /\ Lower(req[w].action) = "buy"
        /\ Len(legs[w]) = 2
        /\ legs[w][1].kind = "close" /\ legs[w][1].outcome = "done"
        /\ legs[w][2].kind = "open" /\ legs[w][2].outcome = "done"
        /\ \E i \in 1..Len(book) :
              book[i].symbol = "GBPUSD" /\ book[i].type = SELL

\* C28: place_order returns None and sends no order when the handler is not
\* connected, the symbol or its quote is unavailable, or the action is not
\* buy, sell or close; while not connected the position read is empty, so
\* no close helper sends an order.
C28_NoResultNoOrder ==
    [][\A w \in Workers :
         /\ (/\ pc[w] = "place_order" /\ pc'[w] \in {"branch", "done"}
             /\ (~connected \/ symbol'[w] \notin VenueInstruments \/ tick'[w] = -1))
            => (pc'[w] = "done" /\ ret'[w] = None /\ legs'[w] = <<>>)
         /\ (/\ pc[w] = "branch" /\ pc'[w] # "branch"
             /\ Lower(req[w].action) \notin {"buy", "sell", "close"})
            => (pc'[w] = "done" /\ ret'[w] = None /\ legs'[w] = <<>>)
         /\ (~connected /\ pc[w] \in {"branch", "close_all"} /\ pc'[w] # pc[w])
            => /\ pc'[w] \in {"open", "done"}
               /\ legs'[w] = legs[w]]_vars

C28_Witness ==
    \E w \in Workers :
        /\ pc[w] = "done"
        /\ req[w].entry = "direct" /\ req[w].action = "hold"
        /\ connected /\ symbol[w] \in VenueInstruments /\ tick[w] = 0
        /\ positions_get(symbol[w]) # <<>>
        /\ ret[w] = None
        /\ legs[w] = <<>>

\* the volume of the close orders the venue executed
RECURSIVE DoneVolume(_)
DoneVolume(ls) ==
    IF ls = <<>> THEN 0
    ELSE (IF Head(ls).kind = "close" /\ Head(ls).outcome = "done"
          THEN Head(ls).volume ELSE 0) + DoneVolume(Tail(ls))

\* C29: in close_position_by_volume the volume of the executed close orders
\* never exceeds the requested volume, the remaining volume is never
\* negative and is the requested volume less the executed closes, and every
\* close order sent has a volume above 0.
C29_RemainingVolume ==
    \A w \in Workers :
        (pc[w] = "close_by_volume" \/ (pc[w] = "done" /\ ret[w].kind = "close")) =>
        /\ DoneVolume(legs[w]) <= req[w].volume
        /\ remaining[w] >= 0
        /\ remaining[w] = req[w].volume - DoneVolume(legs[w])
        /\ \A i \in CloseIdx(w) : legs[w][i].volume > 0

C29_Witness ==
    \E w \in Workers :
        /\ pc[w] = "done" /\ ret[w].kind = "close"
        /\ Len(legs[w]) = 2
        /\ legs[w][1].outcome = "rejected"
        /\ legs[w][2].outcome = "done"
        /\ legs[w][2].volume < snap[w][2].volume
        /\ remaining[w] = 0

\* C30: every venue call of a request names one instrument: the request's
\* symbol with the suffix appended once.
C30_SuffixOnce ==
    \A w \in Workers : named[w] \subseteq {req[w].symbol \o symbol_suffix}

\* C31: after any sequence of connect() and disconnect() calls the flag
\* connected is true exactly when the most recent call was a connect() that
\* returned True.
C31_ConnectedIffLastConnectTrue ==
    connected <=> lastCall = "connect_true"

====
